---- MODULE Spec2Model ----
(***************************************************************************)
(* kasa_exporter: the local-discovery scrape handler of src/main.rs.       *)
(*                                                                         *)
(* One GET /metrics request runs `metrics`: it records `now`, runs the UDP *)
(* `broadcast`, clones the shared endpoint map, rechecks by TCP            *)
(* (`check_one`) every cloned endpoint the broadcast did not return,       *)
(* removes the endpoints whose recheck failed and whose timestamp is older *)
(* than FORGET_TIMEOUT, inserts the endpoints only the broadcast returned, *)
(* and encodes the combined responses.                                     *)
(*                                                                         *)
(* The runtime is `current_thread` (main.rs:55): handlers interleave only  *)
(* at `.await` points, so each action below is one run of a handler from   *)
(* one suspension point to the next.                                       *)
(*                                                                         *)
(* Time is counted in ticks of 10 minutes, so FORGET_TIMEOUT is 3 ticks.    *)
(* A tick boundary may fall between any two steps: the model puts no bound *)
(* on how long a handler stays suspended.                                  *)
(***************************************************************************)
EXTENDS Integers, Sequences, FiniteSets, TLC

\* ---------------------------------------------------------------- bounds
NumEndpoints == 2
NumScrapes == 2
MaxTime == 4
NumConcEndpoints == 1
MaxReading == 1
MaxElapsed == 6
NumDevices == 2

\* ------------------------------------------------------- program constants
\* main.rs:45  Duration::from_secs(60 * 30), in ticks of 10 minutes
FORGET_TIMEOUT == 3

\* main.rs:39  Duration::from_millis(500), in steps of 250 ms
RESPONSE_WAIT_TIME == 2

Endpoints == 1..NumEndpoints
Scrapes == 1..NumScrapes
\* No handler owns a guard of the cache mutex.
NoHolder == {}

VARIABLES
    clock,      \* Instant::now()
    endpoints,  \* AppState.endpoints: SocketAddr -> Instant
    poisoned,   \* poison flag of the Mutex around AppState.endpoints
    lock,       \* requests owning a live MutexGuard of the cache mutex
    observed,   \* history: when the watched endpoint last answered a probe
    pc,         \* per request: position of the handler
    now,        \* per request: `now` of line 82
    responses,  \* per request: result of broadcast() (line 84)
    snapshot,   \* per request: the clone `endpoints` of line 91
    rechecks,   \* per request: outcome of each scheduled check_one
    remove,     \* per request: `remove` of line 125
    combined,   \* per request: `combined` of line 89
    status,     \* per request: how the handler ended
    buffer,     \* per request: `buffer` of line 156, the body of the response
    get_realtime,   \* emeter.get_realtime of one decoded Response
    registry,       \* samples into_registry set for that Response
    bcast_pc,       \* one call of broadcast(): its position
    bcast_clock,    \* time since its send_to returned (line 173)
    bcast_timer,    \* when the timeout(..) it waits in was created (line 178)
    bcast_responses, \* its `responses` (line 176)
    settled,    \* history: from now on requests are served one at a time
    token,          \* kasa/mod.rs: Kasa.token
    sent,           \* history: the requests `query` sent to the cloud API
    answers,        \* history: the answer to each of them
    svc_pc,         \* exporter/mod.rs: position of one `service` future
    device_list,    \* its DeviceListResult.device_list
    emeters,        \* the (device, emeter) pairs its stream has collected
    http_response   \* the Response<Body> it resolves to

vars == <<clock, endpoints, poisoned, lock, observed, pc, now, responses,
          snapshot, rechecks, remove, combined, status, buffer,
          get_realtime, registry, bcast_pc, bcast_clock, bcast_timer, bcast_responses,
          settled, token, sent, answers, svc_pc, device_list, emeters,
          http_response>>

locals == <<now, responses, snapshot, rechecks, remove, combined>>

\* The Response whose readings are normalized, and its samples.
norm == <<get_realtime, registry>>

\* One call of broadcast() followed on a clock of its own.
window == <<bcast_pc, bcast_clock, bcast_timer, bcast_responses>>

\* The cloud-relay client (kasa/mod.rs) and its exporter (exporter/mod.rs).
cloud == <<token, sent, answers, svc_pc, device_list, emeters, http_response>>

\* What a step of the handler leaves alone.
apart == <<norm, window, settled, cloud>>

\* ------------------------------------------------------------ map helpers
EmptyMap == [e \in {} |-> 0]

MapInsert(m, k, v) == [x \in DOMAIN m \cup {k} |-> IF x = k THEN v ELSE m[x]]

MapRemoveAll(m, ks) == [x \in DOMAIN m \ ks |-> m[x]]

\* A decoded device reply.  device_id stands for system.get_sysinfo, and
\* realtime tells whether emeter.get_realtime is Some.
Response(e, rt) == [device_id |-> e, realtime |-> rt]

\* Vec of f[e] for the keys of S, in iteration order.
RECURSIVE CollectFrom(_, _, _)
CollectFrom(i, S, f) ==
    IF i > NumEndpoints THEN <<>>
    ELSE (IF i \in S THEN <<f[i]>> ELSE <<>>) \o CollectFrom(i + 1, S, f)

Collect(S, f) == CollectFrom(1, S, f)

\* Instant::duration_since saturates at zero.
DurationSince(later, earlier) == IF later >= earlier THEN later - earlier ELSE 0


\* ------------------------------------------------- std::sync::Mutex guards
SnapshotGuardKept(s) == {s}

\* Lines 91-95: the guard returned by lock() is a temporary of the statement
\* `state.endpoints.lock().expect(..).clone()`; it is dropped before the
\* statement ends, so nobody owns the mutex once the clone is taken.
SnapshotGuard(s) == NoHolder

\* Lines 139-166: the guard `endpoints` lives to the end of `metrics`; there
\* is no `.await` after line 123, so it is dropped before the task yields.
FinalGuard(s) == NoHolder

\* ---------------------------------------------------- metrics, lines 97-121
\* Endpoints of the clone that the broadcast returned (line 100).
Confirmed(B, K) == DOMAIN K \cap DOMAIN B

ScheduledAll(B, K) == DOMAIN K

\* Endpoints of the clone that get a check_one future (lines 102-119).
Scheduled(B, K) == DOMAIN K \ DOMAIN B

LeftoverAll(B, K) == B

\* `responses` after the loop: responses.remove(endpoint) took out every
\* key of the clone (line 100).
Leftover(B, K) == MapRemoveAll(B, DOMAIN K)

\* combined.push(response) of line 101.
CombinedConfirmed(B, K) == Collect(Confirmed(B, K), B)

\* --------------------------------------------------- metrics, lines 107-117
RecheckOutcomesUnbounded == {"ok", "ok_no_realtime", "err"}

\* Outcomes of timeout(RESPONSE_WAIT_TIME, check_one(endpoint)).
RecheckOutcomes == {"ok", "ok_no_realtime", "err", "timeout"}

\* The outcome that the timer of timeout(..) brings about, whatever the
\* device does (line 113).
TimerOutcomes == RecheckOutcomes \cap {"timeout"}

\* The outcomes that depend on the device (lines 108-112).
DeviceOutcomes == RecheckOutcomes \ {"timeout"}

\* Lines 108-116: Ok(Ok(response)) => Some(response); Ok(Err(e)) and Err(e)
\* are logged and => None.  The Option is what the future returns.
RecheckOption(outcome) ==
    CASE outcome = "ok" -> "some"
      [] outcome = "ok_no_realtime" -> "some_no_realtime"
      [] OTHER -> "none"

IsSome(option) == option \in {"some", "some_no_realtime"}

RecheckResponse(e, option) == Response(e, option = "some")

\* --------------------------------------------------- metrics, lines 125-137
ForgottenAtTimeout(n, last_seen) == DurationSince(n, last_seen) >= FORGET_TIMEOUT

\* now.duration_since(*last_seen) > FORGET_TIMEOUT
Forgotten(n, last_seen) == DurationSince(n, last_seen) > FORGET_TIMEOUT

RemoveListByAge(res, K, n) == {e \in DOMAIN res : Forgotten(n, K[e])}

RemoveListNever(res, K, n) == {}

\* `remove`: rechecked endpoints with no response and an old timestamp.
RemoveList(res, K, n) ==
    {e \in DOMAIN res : ~IsSome(res[e]) /\ Forgotten(n, K[e])}

CombinedRechecksAllOrNothing(res) ==
    IF \E e \in DOMAIN res : ~IsSome(res[e]) THEN <<>>
    ELSE Collect(DOMAIN res, [e \in DOMAIN res |-> RecheckResponse(e, res[e])])

\* combined.push(response) of line 129.
CombinedRechecks(res) ==
    Collect({e \in DOMAIN res : IsSome(res[e])},
            [e \in DOMAIN res |-> RecheckResponse(e, res[e])])

\* --------------------------------------------------- metrics, lines 139-152
EvictClearing(cache, rm) == IF rm = {} THEN cache ELSE EmptyMap

\* endpoints.remove(endpoint) for every endpoint of `remove`.
Evict(cache, rm) == MapRemoveAll(cache, rm)

DiscoverNothing(cache, left, t) == cache

\* endpoints.insert(endpoint, Instant::now()) for what is left of responses.
Discover(cache, left, t) ==
    [e \in DOMAIN cache \cup DOMAIN left |->
        IF e \in DOMAIN left THEN t ELSE cache[e]]

\* combined.push(response) of line 151.
CombinedDiscovered(left) == Collect(DOMAIN left, left)

\* Line 157: what encode(&mut buffer, &registry) returns.
EncodeResults == {"Ok", "Err"}

\* ------------------------------------------ GetRealtimeResponse, 294-331
\* Option<T>: None is the empty sequence, Some(v) the sequence of v.
None == <<>>

Some(v) == <<v>>

\* An f64 is represented by the number of 1/Scale units it holds, exactly:
\* no rounding of the f64 operations is represented.
Scale == 2000

\* `x as f64` for a u64 x.
AsF64(x) == x * Scale

\* `a / 1000.0` and `a * 1000.0`, `a * 3600.0`.
DivBy(a, n) == a \div n

MulBy(a, n) == a * n

\* Option::unwrap_or_else(f): the value of Some, else the result of f.
UnwrapOrElse(opt, f) == IF opt = None THEN f ELSE opt[1]

\* Option::unwrap_or_default() of an Option<u64>.
UnwrapOrDefault(opt) == IF opt = None THEN 0 ELSE opt[1]

\* Lines 310-313.
voltage(rt) ==
    UnwrapOrElse(rt.voltage, DivBy(AsF64(UnwrapOrDefault(rt.voltage_mv)), 1000))

\* Lines 315-318.
current(rt) ==
    UnwrapOrElse(rt.current, DivBy(AsF64(UnwrapOrDefault(rt.current_ma)), 1000))

\* Lines 320-323.
power(rt) ==
    UnwrapOrElse(rt.power, DivBy(AsF64(UnwrapOrDefault(rt.power_mw)), 1000))

energyWithoutKilo(rt) ==
    MulBy(UnwrapOrElse(rt.total,
                       DivBy(AsF64(UnwrapOrDefault(rt.total_wh)), 1000)),
          3600)

\* Lines 325-330: unwrap_or_else(..) * 1000.0 * 3600.0.
energy(rt) ==
    MulBy(MulBy(UnwrapOrElse(rt.total,
                             DivBy(AsF64(UnwrapOrDefault(rt.total_wh)), 1000)),
                1000), 3600)

\* Values a device sends: generation-1 f64 fields (multiples of 1/Scale) and
\* generation-2 u64 fields.
Gen1Values == {None} \cup {Some(v) : v \in 0..MaxReading}

Gen2Values == {None} \cup {Some(v) : v \in 0..MaxReading}

GetRealtimeResponses ==
    [current : Gen1Values, voltage : Gen1Values, power : Gen1Values,
     total : Gen1Values, voltage_mv : Gen2Values, current_ma : Gen2Values,
     power_mw : Gen2Values, total_wh : Gen2Values]

\* Lines 219-249: the four families of a fresh Registry hold no sample.
EmptyRegistry == [voltage |-> None, current |-> None, power |-> None,
                  energy |-> None]

\* The GetRealtimeResponse of a device reply whose emeter.get_realtime is
\* Some: a generation-2 reading.  The handler looks at no value of it.
DeviceReading ==
    [current |-> None, voltage |-> None, power |-> None, total |-> None,
     voltage_mv |-> Some(1), current_ma |-> Some(1), power_mw |-> Some(1),
     total_wh |-> Some(1)]

\* Lines 217-249: Registry::default() with four families of no sample.
RegistryDefault ==
    [voltage |-> EmptyMap, current |-> EmptyMap, power |-> EmptyMap,
     energy |-> EmptyMap]

\* family.get_or_create(&labels).set(v), lines 262-264.
GaugeSet(family, labels, v) == MapInsert(family, labels, v)

CounterKept(family, labels, v) ==
    MapInsert(family, labels,
              (IF labels \in DOMAIN family THEN family[labels] ELSE v) + v)

\* family.get_or_create(&labels).inc_by(v), line 265: a counter is created
\* at 0.
IncBy(family, labels, v) ==
    MapInsert(family, labels,
              (IF labels \in DOMAIN family THEN family[labels] ELSE 0) + v)

\* Lines 252-265, one turn of the loop; the labels are those of the device.
Register(reg, response) ==
    IF ~response.realtime
        THEN reg
        ELSE LET labels == response.device_id
                 realtime == DeviceReading
             IN  [voltage |-> GaugeSet(reg.voltage, labels, voltage(realtime)),
                  current |-> GaugeSet(reg.current, labels, current(realtime)),
                  power |-> GaugeSet(reg.power, labels, power(realtime)),
                  energy |-> IncBy(reg.energy, labels, energy(realtime))]

RECURSIVE RegisterAll(_, _)
RegisterAll(reg, rs) ==
    IF rs = <<>> THEN reg ELSE RegisterAll(Register(reg, Head(rs)), Tail(rs))

\* into_registry, lines 216-269.
into_registry(rs) == RegisterAll(RegistryDefault, rs)


\* ------------------------------- cloud relay: kasa/mod.rs, exporter/mod.rs
DeviceIds == 1..NumDevices

\* kasa/mod.rs:278-303: a device_list names each device of the account once,
\* in the order the API chose.
DeviceLists ==
    {l \in UNION {[1..n -> DeviceIds] : n \in 0..NumDevices} :
        \A i, j \in DOMAIN l : i # j => l[i] # l[j]}

\* kasa/mod.rs:213-217: a KasaRequest, with the token `query` puts in its
\* URI (lines 96-99).
KasaRequest(method, device_id) ==
    [method |-> method, device_id |-> device_id, token |-> None]

\* kasa/mod.rs:45-52: the request Kasa::new sends, without a token.
LoginRequest == KasaRequest("login", None)

\* kasa/mod.rs:78-142: `query` sends one HTTP request and resolves to its
\* decoded body; it looks at no field of the KasaResponse.
query(tok, request) == Append(sent, [request EXCEPT !.token = tok])

\* kasa/mod.rs:145-154.
token_query(req) == query(Some(token), req)

\* kasa/mod.rs:157-172.
passthrough_query(device_id) ==
    token_query(KasaRequest("passthrough", Some(device_id)))

\* kasa/mod.rs:175-182.
get_device_list == token_query(KasaRequest("getDeviceList", None))

\* What the cloud API does with a request:
\*   "ok"               error_code 0 and a result
\*   "session_expired"  the error_code of an expired token, result null
\*   "other_code"       another non-zero error_code, result null
\*   "err"              the HTTP exchange or the JSON decoding fails
ApiAnswers == {"ok", "session_expired", "other_code", "err"}

\* A passthrough result can also carry responseData that does not decode
\* (line 194) or that has no `emeter` member (line 201).
PassthroughAnswers == ApiAnswers \cup {"bad_response_data", "no_emeter"}

\* kasa/mod.rs:403-409: each measurement is there or not; the value plays no
\* part in what follows and is 1.0 when present.
CloudValues == {None, Some(AsF64(1))}

EmeterGetRealtimeResults ==
    [current : CloudValues, voltage : CloudValues, power : CloudValues]

\* kasa/mod.rs:397-400.
EmeterResults ==
    [get_realtime : {None} \cup {Some(r) : r \in EmeterGetRealtimeResults}]

Ok(v) == [ok |-> TRUE, value |-> v]
Err(e) == [ok |-> FALSE, error |-> e]

\* kasa/mod.rs:185-203: what the future of `emeter` resolves to.
emeter(answer, result) ==
    CASE answer = "err" -> Err("Hyper")
      [] answer \in {"session_expired", "other_code"} ->
            Err("EmptyPassthroughResponse")
      [] answer = "bad_response_data" -> Err("Deserialization")
      [] answer = "no_emeter" -> Err("EmptyEmeterResponse")
      [] OTHER -> Ok(result)

\* exporter/mod.rs:59-62, 76: what the future of get_device_list gives the
\* closure of line 63: an error, or the device_list (none when `result` is
\* null).
DeviceListOutcome(answer, list) ==
    CASE answer = "err" -> Err("Hyper")
      [] answer \in {"session_expired", "other_code"} -> Ok(<<>>)
      [] OTHER -> Ok(list)

Measurements == {"voltage", "current", "power"}

\* exporter/mod.rs:155-171: the samples one (device, emeter) pair sets.
FillMetric(pair) ==
    IF pair[2].get_realtime = None
        THEN {}
        ELSE LET realtime == pair[2].get_realtime[1]
             IN  {[metric |-> m, device_id |-> pair[1],
                   value |-> realtime[m][1]] :
                      m \in {x \in Measurements : realtime[x] # None}}

\* exporter/mod.rs:130-174: `registry`, as the set of samples it gathers.
exporter_registry(ems) == UNION {FillMetric(ems[i]) : i \in DOMAIN ems}

EmptyBody == {}

\* exporter/mod.rs:79-107: the response for the collected pairs.
Encoded(ems) == [status |-> "200 OK", body |-> exporter_registry(ems)]

\* exporter/mod.rs:110-113: Response::new(Body::empty()) for any error.
OrElse(e) == [status |-> "200 OK", body |-> EmptyBody]

\* Kasa::new has logged in and nothing has been asked of the exporter.
CloudInit ==
    /\ token = 1
    /\ sent = <<LoginRequest>>
    /\ answers = <<"ok">>
    /\ svc_pc = "idle"
    /\ device_list = <<>>
    /\ emeters = <<>>
    /\ http_response = None


\* ------------------------------------------------------------------- Init
\* AppState::default() and no request in progress.
IdleInit ==
    /\ clock = 0
    /\ endpoints = EmptyMap
    /\ poisoned = FALSE
    /\ lock = NoHolder
    /\ observed = EmptyMap
    /\ pc = [s \in Scrapes |-> "idle"]
    /\ now = [s \in Scrapes |-> 0]
    /\ responses = [s \in Scrapes |-> EmptyMap]
    /\ snapshot = [s \in Scrapes |-> EmptyMap]
    /\ rechecks = [s \in Scrapes |-> EmptyMap]
    /\ remove = [s \in Scrapes |-> {}]
    /\ combined = [s \in Scrapes |-> <<>>]
    /\ status = [s \in Scrapes |-> "none"]
    /\ buffer = [s \in Scrapes |-> None]

Init ==
    /\ IdleInit
    /\ get_realtime = None
    /\ registry = EmptyRegistry
    /\ bcast_pc = "idle"
    /\ bcast_clock = 0
    /\ bcast_timer = 0
    /\ bcast_responses = EmptyMap
    /\ settled = FALSE
    /\ CloudInit

\* History of one device.  Every action treats all endpoints alike, so the
\* observations of one of them are enough to refute a statement made about
\* every endpoint.
Watched == CHOOSE e \in Endpoints : \A x \in Endpoints : e <= x

\* The endpoints of S answered a probe at time t: broadcast() returned a
\* response for them (line 84) or check_one did (line 108).
Observe(S, t) == IF Watched \in S THEN [e \in {Watched} |-> t] ELSE observed

\* ------------------------------------------ metrics, lines 125-166 (tail)
\* Runs without suspension once join_all is ready.  B is the broadcast
\* result, K the clone, res the recheck outcomes, seen the endpoints that
\* answered in the step, encoded the result of encode() (line 157).
Complete(s, B, K, res, seen, encoded) ==
    LET rm == RemoveList(res, K, now[s])
        left == Leftover(B, K)
        afterJoin == CombinedConfirmed(B, K) \o CombinedRechecks(res)
    IN  /\ lock = NoHolder
        /\ pc' = [pc EXCEPT ![s] = "done"]
        /\ responses' = [responses EXCEPT ![s] = B]
        /\ snapshot' = [snapshot EXCEPT ![s] = K]
        /\ rechecks' = [rechecks EXCEPT ![s] = res]
        /\ remove' = [remove EXCEPT ![s] = rm]
        /\ observed' = Observe(seen, clock)
        /\ UNCHANGED <<clock, now, apart>>
        /\ IF poisoned
           THEN \* line 139: lock() is Err(PoisonError), expect() panics
                /\ combined' = [combined EXCEPT ![s] = afterJoin]
                /\ status' = [status EXCEPT ![s] = "lock_panic"]
                /\ UNCHANGED <<endpoints, poisoned, lock, buffer>>
           ELSE /\ endpoints' = Discover(Evict(endpoints, rm), left, clock)
                /\ combined' = [combined EXCEPT ![s] =
                                   afterJoin \o CombinedDiscovered(left)]
                \* line 157: expect() panics with the guard alive, which
                \* poisons the mutex when the guard is dropped in unwinding
                /\ status' = [status EXCEPT ![s] =
                                 IF encoded = "Ok" THEN "200" ELSE "encode_panic"]
                /\ poisoned' = (encoded # "Ok")
                /\ lock' = FinalGuard(s)
                \* lines 154-165: the body is the encoded registry
                /\ buffer' = [buffer EXCEPT ![s] =
                                 IF encoded = "Ok"
                                 THEN Some(into_registry(combined'[s]))
                                 ELSE None]

\* ---------------------------------------------- metrics, lines 84-123
AfterBroadcastTouching(s, B, seen, encoded) ==
    IF poisoned
    THEN /\ lock = NoHolder
         /\ pc' = [pc EXCEPT ![s] = "done"]
         /\ status' = [status EXCEPT ![s] = "lock_panic"]
         /\ responses' = [responses EXCEPT ![s] = B]
         /\ observed' = Observe(seen, clock)
         /\ UNCHANGED <<clock, endpoints, poisoned, lock, now,
                        snapshot, rechecks, remove, combined, buffer, apart>>
    ELSE IF Scheduled(B, endpoints) = {}
    THEN Complete(s, B, endpoints, EmptyMap, seen, encoded)
    ELSE /\ lock = NoHolder
         /\ pc' = [pc EXCEPT ![s] = "rechecks"]
         /\ responses' = [responses EXCEPT ![s] = B]
         /\ snapshot' = [snapshot EXCEPT ![s] = endpoints]
         /\ rechecks' = [rechecks EXCEPT ![s] =
                            [e \in Scheduled(B, endpoints) |-> "pending"]]
         /\ combined' = [combined EXCEPT ![s] = CombinedConfirmed(B, endpoints)]
         /\ lock' = SnapshotGuard(s)
         /\ observed' = Observe(seen, clock)
         /\ endpoints' = Discover(endpoints, Leftover(B, endpoints), clock)
         /\ UNCHANGED <<clock, poisoned, now, remove, status, buffer, apart>>

\* Runs without suspension from the return of broadcast() to join_all.
AfterBroadcast(s, B, seen, encoded) ==
    IF poisoned
    THEN \* line 94: lock() is Err(PoisonError), expect() panics
         /\ lock = NoHolder
         /\ pc' = [pc EXCEPT ![s] = "done"]
         /\ status' = [status EXCEPT ![s] = "lock_panic"]
         /\ responses' = [responses EXCEPT ![s] = B]
         /\ observed' = Observe(seen, clock)
         /\ UNCHANGED <<clock, endpoints, poisoned, lock, now,
                        snapshot, rechecks, remove, combined, buffer, apart>>
    ELSE IF Scheduled(B, endpoints) = {}
    THEN \* join_all of no futures is ready at once
         Complete(s, B, endpoints, EmptyMap, seen, encoded)
    ELSE /\ lock = NoHolder
         /\ pc' = [pc EXCEPT ![s] = "rechecks"]
         /\ responses' = [responses EXCEPT ![s] = B]
         /\ snapshot' = [snapshot EXCEPT ![s] = endpoints]
         /\ rechecks' = [rechecks EXCEPT ![s] =
                            [e \in Scheduled(B, endpoints) |-> "pending"]]
         /\ combined' = [combined EXCEPT ![s] = CombinedConfirmed(B, endpoints)]
         /\ lock' = SnapshotGuard(s)
         /\ observed' = Observe(seen, clock)
         /\ UNCHANGED <<clock, endpoints, poisoned, now, remove, status, buffer,
                        apart>>

\* ---------------------------------------------------------------- actions
\* Time passes.
Tick ==
    /\ clock < MaxTime
    /\ clock' = clock + 1
    /\ UNCHANGED <<endpoints, poisoned, lock, observed, pc, locals, status, buffer,
                   apart>>

\* GET /metrics arrives; line 82, then broadcast() up to its first await.
Begin(s) ==
    /\ pc[s] \in {"idle", "done"}
    /\ pc' = [pc EXCEPT ![s] = "send"]
    /\ now' = [now EXCEPT ![s] = clock]
    /\ responses' = [responses EXCEPT ![s] = EmptyMap]
    /\ snapshot' = [snapshot EXCEPT ![s] = EmptyMap]
    /\ rechecks' = [rechecks EXCEPT ![s] = EmptyMap]
    /\ remove' = [remove EXCEPT ![s] = {}]
    /\ combined' = [combined EXCEPT ![s] = <<>>]
    /\ status' = [status EXCEPT ![s] = "none"]
    /\ buffer' = [buffer EXCEPT ![s] = None]
    /\ UNCHANGED <<clock, endpoints, poisoned, lock, observed, norm, window,
                   cloud>>

Start(s) == Begin(s) /\ UNCHANGED settled

\* broadcast, lines 169-173: bind, set_broadcast and send_to succeed.
BroadcastSent(s) ==
    /\ pc[s] = "send"
    /\ pc' = [pc EXCEPT ![s] = "recv"]
    /\ UNCHANGED <<clock, endpoints, poisoned, lock, observed, locals, status, buffer,
                   apart>>

\* broadcast, lines 169-173: one of them fails, `?` returns Err and line 84
\* replaces it by the empty map.
BroadcastSendFailed(s) ==
    /\ pc[s] = "send"
    /\ \E encoded \in EncodeResults : AfterBroadcast(s, EmptyMap, {}, encoded)

\* broadcast, lines 178-184: a datagram from e decodes.
BroadcastReply(s, e, realtime) ==
    /\ pc[s] = "recv"
    /\ responses' = [responses EXCEPT ![s] =
                        IF realtime THEN MapInsert(@, e, Response(e, TRUE)) ELSE @]
    /\ UNCHANGED <<clock, endpoints, poisoned, lock, observed, pc, now,
                   snapshot, rechecks, remove, combined, status, buffer, apart>>

\* broadcast, lines 179-180: a datagram does not decode, `?` returns Err and
\* line 84 replaces it by the empty map.
BroadcastMalformed(s) ==
    /\ pc[s] = "recv"
    /\ \E encoded \in EncodeResults : AfterBroadcast(s, EmptyMap, {}, encoded)

\* broadcast, lines 178 and 187: recv_from times out or fails, the loop ends
\* and Ok(responses) is returned.
BroadcastEnd(s) ==
    /\ pc[s] = "recv"
    /\ \E encoded \in EncodeResults :
          AfterBroadcast(s, responses[s], DOMAIN responses[s], encoded)

JoinAllFailFast(res, e, option) ==
    IF IsSome(option) THEN [res EXCEPT ![e] = option]
    ELSE [x \in DOMAIN res |-> IF res[x] = "pending" THEN "none" ELSE res[x]]

\* join_all (line 123) keeps the output of a future that finishes at the
\* place of that future and goes on polling the others.
JoinAll(res, e, option) == [res EXCEPT ![e] = option]

\* One check_one future of join_all finishes (lines 103-119); the last one
\* makes join_all ready (line 123) and the handler runs to its end.
CheckOne(s, e, outcome) ==
    /\ pc[s] = "rechecks"
    /\ e \in DOMAIN rechecks[s]
    /\ rechecks[s][e] = "pending"
    /\ LET res == JoinAll(rechecks[s], e, RecheckOption(outcome))
           seen == IF IsSome(RecheckOption(outcome)) THEN {e} ELSE {}
       IN  IF \A x \in DOMAIN res : res[x] # "pending"
           THEN \E encoded \in EncodeResults :
                   Complete(s, responses[s], snapshot[s], res, seen, encoded)
           ELSE /\ rechecks' = [rechecks EXCEPT ![s] = res]
                /\ observed' = Observe(seen, clock)
                /\ UNCHANGED <<clock, endpoints, poisoned, lock, pc, now,
                               responses, snapshot, remove, combined,
                               status, buffer, apart>>

\* The future of `metrics` is dropped while it is suspended at the `.await`
\* of line 84 (inside broadcast) or of line 123 (join_all): its locals are
\* dropped with it and no further line of the handler runs.  No MutexGuard
\* is alive at either point, so the mutex is neither held nor poisoned.
Abandon(s) ==
    /\ pc[s] \in {"send", "recv", "rechecks"}
    /\ pc' = [pc EXCEPT ![s] = "idle"]
    /\ status' = [status EXCEPT ![s] =
                     IF pc[s] = "rechecks" THEN "dropped_in_join_all"
                     ELSE "dropped_in_broadcast"]
    /\ now' = [now EXCEPT ![s] = 0]
    /\ responses' = [responses EXCEPT ![s] = EmptyMap]
    /\ snapshot' = [snapshot EXCEPT ![s] = EmptyMap]
    /\ rechecks' = [rechecks EXCEPT ![s] = EmptyMap]
    /\ remove' = [remove EXCEPT ![s] = {}]
    /\ combined' = [combined EXCEPT ![s] = <<>>]
    /\ UNCHANGED <<clock, endpoints, poisoned, lock, observed, buffer, apart>>

\* into_registry, lines 251-266, for one response: a Response without
\* realtime is skipped (`continue`); else the gauges are set and the counter,
\* which is new and at 0, is increased by the energy.
IntoRegistry ==
    /\ registry = EmptyRegistry
    /\ get_realtime # None
    /\ LET realtime == get_realtime[1]
       IN  registry' = [voltage |-> Some(voltage(realtime)),
                        current |-> Some(current(realtime)),
                        power |-> Some(power(realtime)),
                        energy |-> Some(0 + energy(realtime))]
    /\ UNCHANGED <<clock, endpoints, poisoned, lock, observed, pc, locals,
                   status, buffer, get_realtime, window, settled, cloud>>

\* ------------------------------------------------ broadcast, lines 168-188
\* The handler's own state, which broadcast() does not touch.
handler == <<clock, endpoints, poisoned, lock, observed, pc, locals, status,
            buffer>>

\* timeout(RESPONSE_WAIT_TIME, fut) gives Err(Elapsed) once
\* RESPONSE_WAIT_TIME has passed since the call that created it.
TimerFired(t, created) == t - created >= RESPONSE_WAIT_TIME

\* Lines 169-176: bind, set_broadcast and send_to succeed; the loop is
\* entered and the first timeout(..) is created.
WindowSend ==
    /\ bcast_pc = "idle"
    /\ bcast_pc' = "recv"
    /\ bcast_clock' = 0
    /\ bcast_timer' = 0
    /\ bcast_responses' = EmptyMap
    /\ UNCHANGED <<handler, norm, settled, cloud>>

\* 250 ms pass while the task waits in timeout(..).await; the timer fires
\* when its time has come, so no more time passes in the wait after that.
WindowTick ==
    /\ bcast_pc = "recv"
    /\ ~TimerFired(bcast_clock, bcast_timer)
    /\ bcast_clock < MaxElapsed
    /\ bcast_clock' = bcast_clock + 1
    /\ UNCHANGED <<bcast_pc, bcast_timer, bcast_responses, handler, norm,
                   settled, cloud>>

\* Lines 178-184: recv_from returns a datagram of e before the timer
\* fires, it decodes and is kept if it has a reading; the `while let` then
\* evaluates timeout(RESPONSE_WAIT_TIME, ..) again, which creates a timer.
WindowReply(e, realtime) ==
    /\ bcast_pc = "recv"
    /\ ~TimerFired(bcast_clock, bcast_timer)
    /\ bcast_responses' =
           IF realtime THEN MapInsert(bcast_responses, e, Response(e, TRUE))
           ELSE bcast_responses
    /\ bcast_timer' = bcast_clock
    /\ UNCHANGED <<bcast_pc, bcast_clock, handler, norm, settled, cloud>>

\* Lines 179-180: the datagram does not decode and `?` returns Err.
WindowMalformed ==
    /\ bcast_pc = "recv"
    /\ ~TimerFired(bcast_clock, bcast_timer)
    /\ bcast_pc' = "Err"
    /\ UNCHANGED <<bcast_clock, bcast_timer, bcast_responses, handler, norm,
                   settled, cloud>>

\* Lines 178 and 187: the timer fires (Err(Elapsed)) or recv_from fails
\* (Ok(Err)), the loop ends and Ok(responses) is returned.
WindowEnd(recvFailed) ==
    /\ bcast_pc = "recv"
    /\ recvFailed \/ TimerFired(bcast_clock, bcast_timer)
    /\ bcast_pc' = "Ok"
    /\ UNCHANGED <<bcast_clock, bcast_timer, bcast_responses, handler, norm,
                   settled, cloud>>

\* ---------------------------------------------------------- specifications
\* Requests served one after another: a request arrives only when the
\* previous one has been answered (one client, one connection).
FirstScrape == CHOOSE s \in Scrapes : \A t \in Scrapes : s <= t

Next ==
    \/ Tick
    \/ \E s \in {FirstScrape} : Start(s)
    \/ \E s \in {FirstScrape} : BroadcastSent(s)
    \/ \E s \in {FirstScrape} : BroadcastSendFailed(s)
    \/ \E s \in {FirstScrape}, e \in Endpoints, rt \in BOOLEAN : BroadcastReply(s, e, rt)
    \/ \E s \in {FirstScrape} : BroadcastMalformed(s)
    \/ \E s \in {FirstScrape} : BroadcastEnd(s)
    \/ \E s \in {FirstScrape}, e \in Endpoints, o \in RecheckOutcomes : CheckOne(s, e, o)
    \/ \E s \in {FirstScrape} : Abandon(s)

Spec == Init /\ [][Next]_vars

\* Requests overlapping at their suspension points, at one instant, with
\* the first NumConcEndpoints devices on the network.
ConcEndpoints == 1..NumConcEndpoints

ConcNext ==
    \/ \E s \in Scrapes : Start(s)
    \/ \E s \in Scrapes : BroadcastSent(s)
    \/ \E s \in Scrapes : BroadcastSendFailed(s)
    \/ \E s \in Scrapes, e \in ConcEndpoints, rt \in BOOLEAN : BroadcastReply(s, e, rt)
    \/ \E s \in Scrapes : BroadcastMalformed(s)
    \/ \E s \in Scrapes : BroadcastEnd(s)
    \/ \E s \in Scrapes, e \in ConcEndpoints, o \in RecheckOutcomes : CheckOne(s, e, o)
    \/ \E s \in Scrapes : Abandon(s)

SpecConc == Init /\ [][ConcNext]_vars

\* One decoded Response, with any reading, is given to into_registry.
NormInit ==
    /\ IdleInit
    /\ get_realtime \in {None} \cup {Some(rt) : rt \in GetRealtimeResponses}
    /\ registry = EmptyRegistry
    /\ bcast_pc = "idle"
    /\ bcast_clock = 0
    /\ bcast_timer = 0
    /\ bcast_responses = EmptyMap
    /\ settled = FALSE
    /\ CloudInit

NormNext == IntoRegistry

SpecNorm == NormInit /\ [][NormNext]_vars

\* Overlapping requests, then requests served one at a time: once every
\* handler has ended, a request arrives that is the first of those that
\* overlap with no other.  The watched device is on the network.  Between
\* the overlapping requests the server may stay idle for longer than
\* FORGET_TIMEOUT; time passes at any point of the later requests.
Quiescent == \A s \in Scrapes : pc[s] \in {"idle", "done"}

\* No request is served for FORGET_TIMEOUT and one tick more.
IdlePastTimeout ==
    /\ ~settled
    /\ Quiescent
    /\ clock + FORGET_TIMEOUT + 1 <= MaxTime
    /\ clock' = clock + FORGET_TIMEOUT + 1
    /\ UNCHANGED <<endpoints, poisoned, lock, observed, pc, locals, status, buffer,
                   apart>>

StartAlone(s) ==
    /\ ~settled
    /\ Quiescent
    /\ settled' = TRUE
    /\ Begin(s)

Runners == IF settled THEN {FirstScrape} ELSE Scrapes

RaceNext ==
    \/ IdlePastTimeout
    \/ settled /\ Tick
    \/ \E s \in {FirstScrape} : StartAlone(s)
    \/ \E s \in Runners : Start(s)
    \/ \E s \in Runners : BroadcastSent(s)
    \/ \E s \in Runners : BroadcastSendFailed(s)
    \/ \E s \in Runners, e \in {Watched}, rt \in BOOLEAN : BroadcastReply(s, e, rt)
    \/ \E s \in Runners : BroadcastMalformed(s)
    \/ \E s \in Runners : BroadcastEnd(s)
    \/ \E s \in Runners, e \in {Watched}, o \in RecheckOutcomes : CheckOne(s, e, o)
    \/ \E s \in Runners : Abandon(s)

SpecRace == Init /\ [][RaceNext]_vars

\* Requests served one after another, with what the runtime and its timers
\* guarantee: bind and send_to of a UDP socket end (lines 169-173); the timer
\* of line 178 ends the receive loop when no more datagrams arrive; the
\* timer of line 107 ends every check_one.  Nothing is assumed of the
\* devices or of a client, which may drop its request.
LiveNext ==
    \/ IdlePastTimeout
    \/ \E s \in {FirstScrape} : Start(s)
    \/ \E s \in {FirstScrape} : BroadcastSent(s)
    \/ \E s \in {FirstScrape} : BroadcastSendFailed(s)
    \/ \E s \in {FirstScrape}, e \in Endpoints, rt \in BOOLEAN : BroadcastReply(s, e, rt)
    \/ \E s \in {FirstScrape} : BroadcastMalformed(s)
    \/ \E s \in {FirstScrape} : BroadcastEnd(s)
    \/ \E s \in {FirstScrape}, e \in Endpoints, o \in DeviceOutcomes : CheckOne(s, e, o)
    \/ \E s \in {FirstScrape}, e \in Endpoints, o \in TimerOutcomes : CheckOne(s, e, o)
    \/ \E s \in {FirstScrape} : Abandon(s)

Fairness ==
    \A s \in {FirstScrape} :
        /\ WF_vars(BroadcastSent(s) \/ BroadcastSendFailed(s))
        /\ WF_vars(BroadcastEnd(s))
        /\ WF_vars(\E e \in Endpoints, o \in TimerOutcomes : CheckOne(s, e, o))

SpecLive == Init /\ [][LiveNext]_vars /\ Fairness

\* One call of broadcast() on a network where any device may answer at any
\* time, any number of times.
WindowNext ==
    \/ WindowSend
    \/ WindowTick
    \/ \E e \in Endpoints, rt \in BOOLEAN : WindowReply(e, rt)
    \/ WindowMalformed
    \/ \E recvFailed \in BOOLEAN : WindowEnd(recvFailed)

SpecWindow == Init /\ [][WindowNext]_vars

\* ------------------------------------------ service, exporter/mod.rs:51-116
\* A request arrives: lines 59-62 call get_device_list, which sends its
\* query.
Service ==
    /\ svc_pc = "idle"
    /\ sent' = get_device_list
    /\ svc_pc' = "list"
    /\ UNCHANGED <<token, answers, device_list, emeters, http_response>>
    /\ UNCHANGED <<handler, norm, window, settled>>

\* Lines 77-109: the stream is at its end; encoder.format_type() is a fixed
\* string that parses, so the branch of lines 90-100 is never taken.
Respond(ems) ==
    /\ http_response' = Some(Encoded(ems))
    /\ svc_pc' = "done"

FailPartial(e) ==
    /\ http_response' = Some(Encoded(emeters))
    /\ svc_pc' = "done"

\* Lines 110-113: an error ends the chain.
Fail(e) ==
    /\ http_response' = Some(OrElse(e))
    /\ svc_pc' = "done"

\* Lines 65-73: the stream asks for the emeter of the next device of the
\* list, if there is one, after the pairs ems.
NextDevice(list, ems) ==
    IF Len(ems) < Len(list)
        THEN /\ sent' = passthrough_query(list[Len(ems) + 1])
             /\ svc_pc' = "emeter"
             /\ UNCHANGED http_response
        ELSE /\ Respond(ems)
             /\ UNCHANGED sent

\* The device list query is answered (lines 63-76).
DeviceListAnswered(answer, list) ==
    /\ svc_pc = "list"
    /\ answer = "ok" \/ list = <<>>
    /\ answers' = Append(answers, answer)
    /\ LET devices == DeviceListOutcome(answer, list)
       IN  IF devices.ok
               THEN /\ device_list' = devices.value
                    /\ NextDevice(devices.value, emeters)
               ELSE /\ Fail(devices.error)
                    /\ UNCHANGED <<sent, device_list>>
    /\ UNCHANGED <<token, emeters>>
    /\ UNCHANGED <<handler, norm, window, settled>>

\* The emeter query of the device the stream is at is answered (lines
\* 66-73): its pair is collected and the next device is asked, or the error
\* ends the stream.
EmeterAnswered(answer, result) ==
    /\ svc_pc = "emeter"
    /\ answers' = Append(answers, answer)
    /\ LET device == device_list[Len(emeters) + 1]
           outcome == emeter(answer, result)
       IN  IF outcome.ok
               THEN /\ emeters' = Append(emeters, <<device, outcome.value>>)
                    /\ NextDevice(device_list, emeters')
               ELSE /\ Fail(outcome.error)
                    /\ UNCHANGED <<sent, emeters>>
    /\ UNCHANGED <<token, device_list>>
    /\ UNCHANGED <<handler, norm, window, settled>>

\* One request to the cloud-relay exporter, the API answering as it likes.
CloudNext ==
    \/ Service
    \/ \E answer \in ApiAnswers, list \in DeviceLists :
            DeviceListAnswered(answer, list)
    \/ \E answer \in PassthroughAnswers, result \in EmeterResults :
            EmeterAnswered(answer, result)

SpecCloud == Init /\ [][CloudNext]_vars


\* ===================================================================
\* Properties
\* ===================================================================

\* The handler of s ran to its end: it updated the cache (lines 139-152).
Completed(s) == pc[s] = "done" /\ status[s] # "lock_panic"

\* The step in which the handler of s updates the cache and ends.
Completes(s) == pc[s] # "done" /\ pc'[s] = "done" /\ status'[s] # "lock_panic"

\* Number of responses of device e in a Vec of responses.
Count(seq, e) == Cardinality({i \in DOMAIN seq : seq[i].device_id = e})

\* e had a check_one future in the cycle of s and it gave None.
RecheckFailed(s, e) == e \in DOMAIN rechecks[s] /\ rechecks[s][e] = "none"

\* e had a check_one future in the cycle of s and it gave Some(response).
RecheckSucceeded(s, e) == e \in DOMAIN rechecks[s] /\ IsSome(rechecks[s][e])

\* ------------------------------------------------------------------- C1
\* e is in the clone of the cycle that s ends in this step, the broadcast did
\* not return it and its recheck gave None.
UnseenAndFailed(s, e) == e \in DOMAIN rechecks'[s] /\ rechecks'[s][e] = "none"

\* C1, as stated: an endpoint whose last_seen is T, that is absent from the
\* broadcast result and fails its recheck, is removed by a cycle exactly when
\* the cycle's `now` is at or after T + FORGET_TIMEOUT.
C1_EvictedAtOrAfterTimeout ==
    [][\A s \in Scrapes : Completes(s) =>
          \A e \in DOMAIN endpoints : UnseenAndFailed(s, e) =>
              (e \notin DOMAIN endpoints'
                   <=> now[s] >= snapshot'[s][e] + FORGET_TIMEOUT)]_vars

\* C1, amended: such an endpoint is removed by a cycle exactly when the
\* cycle's `now` is strictly later than T + FORGET_TIMEOUT, T being the
\* last_seen the cycle's clone holds for it; a cycle run at
\* T + FORGET_TIMEOUT keeps it.
C1_EvictedStrictlyAfterTimeout ==
    [][\A s \in Scrapes : Completes(s) =>
          \A e \in DOMAIN endpoints : UnseenAndFailed(s, e) =>
              (e \notin DOMAIN endpoints'
                   <=> now[s] > snapshot'[s][e] + FORGET_TIMEOUT)]_vars

\* A cycle run exactly at T + FORGET_TIMEOUT kept an endpoint whose recheck
\* failed.
C1_Witness ==
    \E s \in Scrapes, e \in Endpoints :
        /\ Completed(s) /\ RecheckFailed(s, e)
        /\ now[s] = snapshot[s][e] + FORGET_TIMEOUT
        /\ e \in DOMAIN endpoints

\* ------------------------------------------------------------------- C2
\* C2, as stated: after a cycle in which a cached endpoint answered the
\* broadcast, its last_seen is not older than the cycle's `now`.
C2_RefreshedOnObservation ==
    \A s \in Scrapes : Completed(s) =>
        \A e \in Confirmed(responses[s], snapshot[s]) :
            e \in DOMAIN endpoints => endpoints[e] >= now[s]

\* ------------------------------------------------------------------- C3
\* C3, as stated (for the watched endpoint): an endpoint whose recheck fails
\* but that answered a probe less than FORGET_TIMEOUT before the cycle's
\* `now` is still in the cache when the cycle ends.
C3_NoFlapping ==
    \A s \in Scrapes : Completed(s) =>
        \A e \in DOMAIN observed :
            (/\ RecheckFailed(s, e)
             /\ observed[e] <= now[s]
             /\ now[s] - observed[e] < FORGET_TIMEOUT) => e \in DOMAIN endpoints

\* ------------------------------------------------------------------- C4
\* C4: an endpoint of the clone that the broadcast did not return and whose
\* recheck succeeds has exactly one response in `combined` and is not put in
\* `remove`, so it is still in the cache when the cycle ends, whatever the
\* age of its timestamp.
C4_FallbackCorrectness ==
    \A s \in Scrapes : pc[s] = "done" =>
        \A e \in Endpoints : RecheckSucceeded(s, e) =>
            /\ e \in DOMAIN snapshot[s] /\ e \notin DOMAIN responses[s]
            /\ Count(combined[s], e) = 1
            /\ e \notin remove[s]
            /\ e \in DOMAIN endpoints /\ endpoints[e] = snapshot[s][e]

\* A recheck succeeded for an endpoint whose timestamp was past the timeout.
C4_Witness ==
    \E s \in Scrapes, e \in Endpoints :
        /\ Completed(s) /\ RecheckSucceeded(s, e)
        /\ Forgotten(now[s], snapshot[s][e])

\* ------------------------------------------------------------------- C5
\* C5, as stated: an endpoint the broadcast returned and the clone does not
\* hold is, at the end of the cycle, in the cache with last_seen equal to the
\* `now` recorded at line 82, and its response is in `combined`.
C5_DiscoveredAtRecordedNow ==
    \A s \in Scrapes : Completed(s) =>
        \A e \in DOMAIN Leftover(responses[s], snapshot[s]) :
            /\ e \in DOMAIN endpoints /\ endpoints[e] = now[s]
            /\ Count(combined[s], e) >= 1

\* C5, amended: the endpoint is inserted with the time read when the cycle
\* updates the cache (Instant::now() of line 150), which is never earlier
\* than the recorded `now`, and its response is in `combined`.
C5_DiscoveredAtInsertionTime ==
    [][\A s \in Scrapes : Completes(s) =>
          \A e \in DOMAIN Leftover(responses'[s], snapshot'[s]) :
              /\ e \in DOMAIN endpoints' /\ endpoints'[e] = clock
              /\ clock >= now[s]
              /\ Count(combined'[s], e) >= 1]_vars

\* An endpoint was discovered by a cycle and stamped later than the cycle's
\* recorded `now`.
C5_Witness ==
    \E s \in Scrapes, e \in Endpoints :
        /\ Completed(s)
        /\ e \in DOMAIN Leftover(responses[s], snapshot[s])
        /\ e \in DOMAIN endpoints /\ endpoints[e] > now[s]

\* ------------------------------------------------------------------- C6
\* The cache loses an entry only in the step that ends a cycle, and only an
\* entry of that cycle's `remove`.
LostOnlyByEviction ==
    \A e \in DOMAIN endpoints \ DOMAIN endpoints' :
        \E s \in Scrapes : Completes(s) /\ e \in remove'[s]

\* Endpoints the cycle of s checked: those of its clone and of its broadcast.
Checked(K, B) == DOMAIN K \cup DOMAIN B

\* C6, as stated (for the watched endpoint): an endpoint in the cache at the
\* end of a cycle that checked it answered a probe no more than
\* FORGET_TIMEOUT before the cycle's `now`; and the cache loses entries only
\* by eviction.
C6_ObservedWithinTimeout ==
    [][/\ LostOnlyByEviction
       /\ \A s \in Scrapes : Completes(s) =>
             \A e \in Checked(snapshot'[s], responses'[s]) \cap DOMAIN endpoints' :
                 e = Watched =>
                     /\ e \in DOMAIN observed'
                     /\ DurationSince(now[s], observed'[e]) <= FORGET_TIMEOUT]_vars

\* C6, amended: an endpoint in the cache at the end of a cycle that checked
\* it either answered a probe of that cycle or has a cache timestamp (the
\* time of its insertion) no more than FORGET_TIMEOUT before the cycle's
\* `now`; and the cache loses entries only by eviction.
C6_FreshOrAnswered ==
    [][/\ LostOnlyByEviction
       /\ \A s \in Scrapes : Completes(s) =>
             \A e \in Checked(snapshot'[s], responses'[s]) \cap DOMAIN endpoints' :
                 \/ e \in DOMAIN responses'[s]
                 \/ e \in DOMAIN rechecks'[s] /\ IsSome(rechecks'[s][e])
                 \/ DurationSince(now[s], endpoints'[e]) <= FORGET_TIMEOUT]_vars

\* A cycle kept an endpoint that answered none of its probes, and another
\* cycle evicted one.
C6_Witness ==
    \E s \in Scrapes, e \in Endpoints :
        /\ Completed(s) /\ RecheckFailed(s, e)
        /\ e \in DOMAIN endpoints
        /\ \E x \in Endpoints : x \in remove[s]

\* ------------------------------------------------------------------- C7
\* C7, as stated: when the broadcast window of a cycle closes, every reply
\* with a reading that was collected in it is in the broadcast result, also
\* when another datagram of the window did not decode, and the handler goes
\* on.
C7_MalformedDroppedIndividually ==
    [][\A s \in Scrapes : (pc[s] = "recv" /\ pc'[s] # "recv") =>
          /\ DOMAIN responses[s] \subseteq DOMAIN responses'[s]
          /\ status'[s] = "lock_panic" => poisoned]_vars

\* ------------------------------------------------------------------- C8
\* C8: no failure of the broadcast send or of a recheck makes the handler
\* fail, and `combined` holds the response of every endpoint of the broadcast
\* result and of every recheck that gave a response, whatever happened to the
\* other endpoints.
C8_ErrorContainment ==
    \A s \in Scrapes : pc[s] = "done" =>
        /\ status[s] = "lock_panic" => poisoned
        /\ Completed(s) =>
              /\ \A e \in DOMAIN responses[s] : Count(combined[s], e) = 1
              /\ \A e \in Endpoints : RecheckSucceeded(s, e) => Count(combined[s], e) = 1

\* One recheck failed and another one gave a response in the same cycle.
C8_Witness ==
    \E s \in Scrapes, e1, e2 \in Endpoints :
        /\ pc[s] = "done" /\ status[s] = "200"
        /\ RecheckFailed(s, e1) /\ RecheckSucceeded(s, e2)

\* ------------------------------------------------------------------- C9
\* C9, as stated: a serialization failure is fatal to its own request only;
\* every other request locks the cache and is answered.
C9_SerializationFailureIsLocal ==
    \A s \in Scrapes : pc[s] = "done" => status[s] \in {"200", "encode_panic"}

\* ------------------------------------------------------------------ C10
\* A handler is suspended on network I/O: in broadcast() or in join_all.
Suspended(s) == pc[s] \in {"send", "recv", "rechecks"}

\* C10: no handler owns the cache mutex while it is suspended, so the
\* handler of any other request can take its clone of the cache.
C10_LockDiscipline ==
    \A s \in Scrapes : Suspended(s) =>
        /\ s \notin lock
        /\ \A t \in Scrapes \ {s} : pc[t] = "recv" => ENABLED BroadcastEnd(t)

\* One handler waits for its rechecks while another one, started later,
\* has taken its clone and waits for its own.
C10_Witness ==
    \E s, t \in Scrapes :
        /\ s # t
        /\ pc[s] = "rechecks" /\ pc[t] = "rechecks"
        /\ snapshot[s] # EmptyMap /\ snapshot[t] # EmptyMap

\* ------------------------------------------------------------------ C11
\* C11: the cache changes only in the step that ends a cycle, when every
\* recheck of the cycle has its result; a step of a suspended handler that
\* does not end its cycle, and the step that abandons it, leave the cache as
\* it was.
C11_CancellationSafety ==
    [][endpoints' # endpoints =>
          \E s \in Scrapes :
              /\ Completes(s)
              /\ \A e \in DOMAIN rechecks'[s] : rechecks'[s][e] # "pending"]_vars

\* A handler was abandoned while its rechecks were in flight, with entries
\* in the cache.
C11_Witness ==
    \E s \in Scrapes :
        /\ status[s] = "dropped_in_join_all"
        /\ endpoints # EmptyMap

\* ------------------------------------------------------------------ C12
\* The value the family rule gives: the generation-1 field when it is
\* present and not zero, else the generation-2 field divided by 1000, which
\* is 0 when that field is absent too.
FamilyRule(gen1, gen2) ==
    IF gen1 # None /\ gen1[1] # 0 THEN gen1[1]
    ELSE DivBy(AsF64(UnwrapOrDefault(gen2)), 1000)

\* into_registry has set the samples of the Response.
Registered == get_realtime # None /\ registry # EmptyRegistry

\* C12, as stated: the canonical voltage, current and power follow the
\* family rule, each on its own pair of fields.
C12_ZeroTreatedAsAbsent ==
    Registered =>
        LET rt == get_realtime[1]
        IN  /\ registry.voltage = Some(FamilyRule(rt.voltage, rt.voltage_mv))
            /\ registry.current = Some(FamilyRule(rt.current, rt.current_ma))
            /\ registry.power = Some(FamilyRule(rt.power, rt.power_mw))

\* ------------------------------------------------------------------ C13
\* Joules of a generation-1 total (kWh) and of a generation-2 total (Wh).
JoulesOfKwh(total) == total * 3600000

JoulesOfWh(total_wh) == AsF64(total_wh) * 3600

C14_BoundedBroadcastWindow ==
    [][/\ (bcast_pc = "recv" /\ bcast_pc' # "recv")
              => bcast_clock <= RESPONSE_WAIT_TIME
       /\ bcast_responses' # bcast_responses
              => bcast_clock <= RESPONSE_WAIT_TIME]_vars

\* ------------------------------------------------------------------ C15
\* C15: after requests that overlapped in any way have all ended, a cycle
\* that runs alone ends with every endpoint of its broadcast result in the
\* cache and in `combined`, and with no endpoint in the cache whose recheck
\* failed in the cycle and whose last_seen is older than the cycle's `now`
\* minus FORGET_TIMEOUT.
C15_RaceTolerance ==
    [][\A s \in Scrapes : (settled /\ Completes(s)) =>
          /\ \A e \in DOMAIN responses'[s] :
                 e \in DOMAIN endpoints' /\ Count(combined'[s], e) = 1
          /\ \A e \in DOMAIN endpoints' :
                 ~(/\ e \in DOMAIN rechecks'[s]
                   /\ rechecks'[s][e] = "none"
                   /\ Forgotten(now[s], endpoints'[e]))]_vars

\* A cycle that overlapped with others removed an endpoint; the cycle that
\* ran alone after them found it again.
C15_Witness ==
    /\ settled
    /\ Completed(FirstScrape)
    /\ \E t \in Scrapes \ {FirstScrape}, e \in Endpoints :
           /\ Completed(t)
           /\ e \in remove[t]
           /\ e \in DOMAIN Leftover(responses[FirstScrape], snapshot[FirstScrape])

\* ------------------------------------------------------------------ C16
\* C16: when a cycle ends, `combined` holds one response for every endpoint
\* of the broadcast result, one for every endpoint of the clone outside the
\* broadcast result whose recheck gave a response, and no other response.
C16_CombinedReadingSet ==
    \A s \in Scrapes : Completed(s) =>
        /\ \A e \in Endpoints :
               Count(combined[s], e) =
                   IF \/ e \in DOMAIN responses[s]
                      \/ (e \in DOMAIN snapshot[s] /\ RecheckSucceeded(s, e))
                   THEN 1 ELSE 0
        /\ Len(combined[s]) =
               Cardinality({e \in Endpoints : Count(combined[s], e) = 1})

\* A cycle ended with a response of the broadcast for an endpoint of its
\* clone and a response of a recheck for another.
C16_Witness ==
    \E s \in Scrapes, e1, e2 \in Endpoints :
        /\ Completed(s)
        /\ e1 \in Confirmed(responses[s], snapshot[s])
        /\ RecheckSucceeded(s, e2)
        /\ Len(combined[s]) = 2

\* ------------------------------------------------------------------ C17
\* The endpoints of the clone of s whose recheck gave None in the cycle that
\* s ends in this step and whose last_seen in the clone is more than
\* FORGET_TIMEOUT before the cycle's `now`.
FailedAndOld(s) ==
    {e \in DOMAIN snapshot'[s] :
        /\ e \in DOMAIN rechecks'[s]
        /\ rechecks'[s][e] = "none"
        /\ now[s] - snapshot'[s][e] > FORGET_TIMEOUT}

\* C17: the step that ends a cycle removes from the cache the entries of
\* FailedAndOld and no other, and every other entry keeps its last_seen,
\* but for the endpoints the same step inserts (those of the broadcast
\* result that the clone does not hold).
C17_EvictionSet ==
    [][\A s \in Scrapes : Completes(s) =>
          /\ remove'[s] = FailedAndOld(s)
          /\ DOMAIN endpoints \ DOMAIN endpoints' = DOMAIN endpoints \cap FailedAndOld(s)
          /\ \A e \in DOMAIN endpoints \ FailedAndOld(s) :
                 e \notin DOMAIN Leftover(responses'[s], snapshot'[s])
                     => endpoints'[e] = endpoints[e]]_vars

\* A cycle removed an endpoint and kept another whose recheck failed too.
C17_Witness ==
    \E s \in Scrapes, e1, e2 \in Endpoints :
        /\ Completed(s)
        /\ e1 \in remove[s] /\ e1 \notin DOMAIN endpoints
        /\ RecheckFailed(s, e2) /\ e2 \in DOMAIN endpoints

\* ------------------------------------------------------------------ C18
\* The handler of s is in broadcast().
InBroadcast(s) == pc[s] \in {"send", "recv"}

\* C18: while broadcast() runs, the handler has no clone of the cache and no
\* check_one future; the clone is the cache as it is when broadcast() has
\* returned; and the endpoints that get a check_one future are those of the
\* clone that are not in the broadcast result, no others.
C18_UnicastIsFallbackOnly ==
    [][\A s \in Scrapes :
          /\ InBroadcast(s)' =>
                 (snapshot'[s] = EmptyMap /\ rechecks'[s] = EmptyMap)
          /\ (InBroadcast(s) /\ pc'[s] \in {"rechecks", "done"}
                  /\ status'[s] # "lock_panic") =>
                 /\ snapshot'[s] = endpoints
                 /\ responses'[s] \in {responses[s], EmptyMap}
          /\ (pc'[s] = "rechecks" \/ Completed(s)') =>
                 \A e \in Endpoints :
                     e \in DOMAIN rechecks'[s]
                         <=> (/\ e \in DOMAIN snapshot'[s]
                              /\ e \notin DOMAIN responses'[s])]_vars

\* The clone of a cycle holds an endpoint the broadcast returned, with no
\* check_one future, and one it did not return, whose future is pending.
C18_Witness ==
    \E s \in Scrapes, e1, e2 \in Endpoints :
        /\ pc[s] = "rechecks"
        /\ e1 \in Confirmed(responses[s], snapshot[s])
        /\ e1 \notin DOMAIN rechecks[s]
        /\ e2 \in DOMAIN rechecks[s] /\ rechecks[s][e2] = "pending"

\* ------------------------------------------------------------------ C19
\* The responses a Vec holds.
Range(seq) == {seq[i] : i \in DOMAIN seq}

\* C19: a check_one future that finishes records the outcome for its own
\* endpoint and changes the outcome of no other, whichever futures finished
\* before it; and when the last one has finished, the content of `combined`
\* and the set `remove` are those the recorded outcomes give, so that the
\* order in which the futures finish does not show in them.
C19_CompletionOrderIndependence ==
    [][\A s \in Scrapes :
          (/\ pc[s] = "rechecks"
           /\ pc'[s] \in {"rechecks", "done"}
           /\ <<pc[s], rechecks[s], combined[s], remove[s]>>
                  # <<pc'[s], rechecks'[s], combined'[s], remove'[s]>>) =>
              /\ \E e \in DOMAIN rechecks[s] :
                     /\ rechecks[s][e] = "pending"
                     /\ rechecks'[s][e] # "pending"
                     /\ \A x \in DOMAIN rechecks[s] \ {e} :
                            rechecks'[s][x] = rechecks[s][x]
              /\ DOMAIN rechecks'[s] = DOMAIN rechecks[s]
              /\ snapshot'[s] = snapshot[s]
              /\ responses'[s] = responses[s]
              /\ now'[s] = now[s]
              /\ pc'[s] = "rechecks" =>
                     (combined'[s] = combined[s] /\ remove'[s] = remove[s])
              /\ Completes(s) =>
                     /\ Range(combined'[s]) =
                            {responses[s][e] : e \in DOMAIN responses[s]}
                            \cup {Response(e, rechecks'[s][e] = "some") :
                                     e \in {x \in DOMAIN rechecks[s] :
                                                rechecks'[s][x] # "none"}}
                     /\ remove'[s] =
                            {e \in DOMAIN rechecks[s] :
                                /\ rechecks'[s][e] = "none"
                                /\ now[s] - snapshot[s][e] > FORGET_TIMEOUT}]_vars

\* The future of an endpoint finished with None while the future of an
\* endpoint scheduled before it is still pending.
C19_Witness ==
    \E s \in Scrapes, e1, e2 \in Endpoints :
        /\ pc[s] = "rechecks"
        /\ e1 < e2
        /\ e1 \in DOMAIN rechecks[s] /\ rechecks[s][e1] = "pending"
        /\ e2 \in DOMAIN rechecks[s] /\ rechecks[s][e2] = "none"

\* ------------------------------------------------------------------ C20
\* C20: a handler that has started ends: it returns (or is dropped by its
\* client), whatever the devices do, also when no cached endpoint answers.
C20_ScrapeTermination ==
    \A s \in Scrapes :
        (pc[s] \in {"send", "recv", "rechecks"}) ~> (pc[s] \in {"done", "idle"})

\* A cycle returned its response although none of the endpoints of its
\* clone answered, neither the broadcast nor the recheck.
C20_Witness ==
    \E s \in Scrapes :
        /\ pc[s] = "done" /\ status[s] = "200"
        /\ snapshot[s] # EmptyMap
        /\ DOMAIN rechecks[s] = DOMAIN snapshot[s]
        /\ \A e \in DOMAIN rechecks[s] : rechecks[s][e] = "none"

\* ------------------------------------------------------------------ C21
\* The request sent k-th was an authenticated one.
Authenticated(k) == sent[k].method \in {"getDeviceList", "passthrough"}

\* The request sent k-th repeats, after a new login, a request that the API
\* answered with the session-expired code.
IsRetry(k) ==
    /\ k > 2
    /\ sent[k - 1].method = "login"
    /\ answers[k - 2] = "session_expired"

\* C21: when the API answers an authenticated request with the
\* session-expired code, the client logs in again and, once logged in,
\* sends that request a second time with the new token; it does this once
\* per request.
C21_RetryOnceOnSessionExpired ==
    \A k \in DOMAIN answers :
        (Authenticated(k) /\ answers[k] = "session_expired" /\ ~IsRetry(k))
            => /\ k < Len(sent)
               /\ sent[k + 1].method = "login"
               /\ (k + 1 \in DOMAIN answers /\ answers[k + 1] = "ok")
                    => /\ k + 2 <= Len(sent)
                       /\ sent[k + 2].method = sent[k].method
                       /\ sent[k + 2].device_id = sent[k].device_id
                       /\ sent[k + 2].token # sent[k].token

\* ------------------------------------------------------------------ C22
\* C22: with requests that overlap, the step that ends a cycle removes no
\* cache entry whose last_seen, as the cache holds it at that step, is
\* within FORGET_TIMEOUT of the `now` of the cycle: an entry that another
\* cycle inserted after this cycle took its clone is not removed on account
\* of the timestamp in the clone.
C22_NoEvictionOfFreshEntry ==
    [][\A s \in Scrapes : Completes(s) =>
          \A e \in DOMAIN endpoints \ DOMAIN endpoints' :
              DurationSince(now[s], endpoints[e]) > FORGET_TIMEOUT]_vars

\* ------------------------------------------------------------------ C23
\* The devices whose response with a reading is in a Vec of responses.
Reporting(seq) == {seq[i].device_id : i \in {j \in DOMAIN seq : seq[j].realtime}}

\* The samples of a registry for one device: one per family, with the
\* values of one reading, the counter being that reading's energy.
SamplesOfOneReading(reg, e) ==
    /\ reg.voltage[e] = voltage(DeviceReading)
    /\ reg.current[e] = current(DeviceReading)
    /\ reg.power[e] = power(DeviceReading)
    /\ reg.energy[e] = energy(DeviceReading)

\* C23: the body a cycle returns holds samples for the devices that have a
\* response with a reading in the `combined` of that cycle and for no other
\* device; each of them has the values of that one reading, the energy
\* counter included; an endpoint that the cache still holds but that
\* answered neither the broadcast nor its check_one in the cycle has no
\* sample.
C23_BodyFromCombinedOnly ==
    [][\A s \in Scrapes : (Completes(s) /\ status'[s] = "200") =>
          /\ buffer'[s] # None
          /\ LET reg == buffer'[s][1]
             IN  /\ \A f \in DOMAIN reg :
                        DOMAIN reg[f] = Reporting(combined'[s])
                 /\ \A e \in Reporting(combined'[s]) :
                        SamplesOfOneReading(reg, e)
                 /\ \A e \in DOMAIN endpoints' :
                        (e \notin DOMAIN responses'[s] /\ ~RecheckSucceeded(s, e)')
                            => \A f \in DOMAIN reg : e \notin DOMAIN reg[f]]_vars

\* A cycle returned a body with samples of one device and none of another
\* that is still in the cache, was found by an earlier cycle and did not
\* answer in this one.
C23_Witness ==
    \E s \in Scrapes, e1, e2 \in Endpoints :
        /\ Completed(s) /\ status[s] = "200"
        /\ buffer[s] # None
        /\ e1 \in DOMAIN buffer[s][1].energy
        /\ e2 \in DOMAIN endpoints
        /\ RecheckFailed(s, e2)
        /\ e2 \notin DOMAIN buffer[s][1].energy

\* ------------------------------------------------------------------ C24
\* The future of the request sent k-th resolved to an error: the exchange
\* failed, or a passthrough request got anything but an emeter.
QueryFailed(k) ==
    \/ sent[k].method = "getDeviceList" /\ answers[k] = "err"
    \/ sent[k].method = "passthrough" /\ answers[k] # "ok"

\* The passthrough requests sent so far, in the order they were sent.
Passthroughs == SelectSeq(sent, LAMBDA r : r.method = "passthrough")

\* C24: the exporter asks for the emeter of one device at a time, in the
\* order of the device list, each request being sent when the one before it
\* has been answered; and once the device list query or the emeter query of
\* one device has failed the response is 200 with an empty body, whatever
\* was read from the devices before it.
C24_SequentialAllOrNothing ==
    /\ Len(sent) <= Len(answers) + 1
    /\ Len(Passthroughs) <= Len(device_list)
    /\ \A i \in DOMAIN Passthroughs :
           Passthroughs[i].device_id = Some(device_list[i])
    /\ (\E k \in DOMAIN answers : QueryFailed(k))
           => /\ svc_pc = "done"
              /\ http_response = Some([status |-> "200 OK", body |-> EmptyBody])

\* The emeter of the first device was read, with a voltage, the query of
\* the second failed, and the response has no sample.
C24_Witness ==
    /\ svc_pc = "done"
    /\ Len(device_list) >= 2
    /\ Len(emeters) = 1
    /\ emeters[1][2].get_realtime # None
    /\ emeters[1][2].get_realtime[1].voltage # None
    /\ QueryFailed(Len(answers))
    /\ http_response # None
    /\ http_response[1].body = EmptyBody


====
